---- MODULE Spec2Model ----
(***************************************************************************)
(* Model of audio_analyzer.py: the batch analysis pipeline of              *)
(* AudioAnalyzerApp (GUI thread) and its AudioAnalysisWorker runnables     *)
(* (threads of a QThreadPool).                                             *)
(*                                                                         *)
(* The GUI thread runs one handler at a time: analyze_audio_files,         *)
(* stop_analysis, update_thread_count, handle_result and update_progress   *)
(* are each one atomic action.  A worker emits its signals from a pool     *)
(* thread, so the connected slots are queued to the GUI thread's event     *)
(* queue (`events`) and delivered in FIFO order.  stop_analysis opens a    *)
(* modal confirmation box (QMessageBox.question), whose nested event loop  *)
(* keeps delivering queued events while the user has not answered: it is   *)
(* two actions, the request and the reply.                                 *)
(*                                                                         *)
(* A worker's run() is cut at the points where it reads the shared flag    *)
(* is_cancelled: the entry check (line 41), the decode that ends in the    *)
(* result emit or in the exception handler (lines 45-47), the handler's    *)
(* check and error emit (lines 48-58), the final check and progress emit   *)
(* (lines 61-62).  An emit only appends to the event queue, which          *)
(* stop_analysis never touches, so a check and the emit it guards commute  *)
(* with every GUI action and are one step.                                 *)
(***************************************************************************)
EXTENDS Integers, Sequences, FiniteSets, TLC

\* Most paths in one submitted batch.
MaxFiles == 2
\* Number of batches the collaborator submits successfully.
MaxBatches == 2
\* multiprocessing.cpu_count() of the machine (spinbox maximum, line 181).
CpuCount == 2

Batches == 1..MaxBatches
Indexes == 0..(MaxFiles - 1)
\* A worker is identified by the batch that created it and its file_index.
Tasks == Batches \X Indexes

\* The paths the collaborator submits.  Whether a file decodes is decided
\* when analyze_audio reads it, not by its name.
Files == {"audio"}

\* The non-empty path lists a caller of analyze_audio_files passes (each
\* caller tests "if file_paths:" first).
PathLists == UNION {[1..n -> Files] : n \in 1..MaxFiles}

\* 'audio_type' of an error result (line 52, "分析错误").
AnalysisErrorMarker == "AnalysisError"
\* 'error': None of a successful result (line 111).
NoError == "None"

Max(a, b) == IF a >= b THEN a ELSE b

\* default_threads = max(2, multiprocessing.cpu_count() // 2)
DefaultThreads == Max(2, CpuCount \div 2)

\* No function has been called on its own.
NoProbe == [op |-> "none"]

VARIABLES
    results,            \* self.results
    completed_tasks,    \* self.completed_tasks
    total_tasks,        \* self.total_tasks
    active_workers,     \* self.active_workers, a list of workers
    is_analyzing,       \* self.is_analyzing
    current_progress,   \* self.current_progress
    maxThreadCount,     \* self.thread_pool.maxThreadCount()
    spinbox_enabled,    \* self.thread_spinbox.isEnabled()
    poolQueue,          \* runnables queued in the pool, not yet started
    workers,            \* the AudioAnalysisWorker objects alive, by task
    events,             \* queued signal deliveries to the GUI thread
    dialog,             \* the stop confirmation box is open
    batch,              \* number of batches started
    state,              \* Idle, Running, Finished or Cancelled
    last_op,            \* the collaborator's last call, or "other"
    probe               \* the last direct call of a function on its own, with
                        \* its arguments and what it returned

vars == <<results, completed_tasks, total_tasks, active_workers, is_analyzing,
          current_progress, maxThreadCount, spinbox_enabled, poolQueue, workers,
          events, dialog, batch, state, last_op, probe>>

gui == <<results, completed_tasks, total_tasks, active_workers, is_analyzing,
         current_progress, spinbox_enabled>>

----------------------------------------------------------------------------
\* Workers

\* pc of a worker: queued (in the pool's queue), entry (run() entered, before
\* line 41), decode (in analyze_audio), except (line 48), progress (line 61),
\* done (run() returned).  A worker object lives while the pool or
\* self.active_workers refers to it; NoWorker stands for no object.
InProgressPcs == {"entry", "decode", "except", "progress"}

NoWorker ==
    [pc |-> "none", is_cancelled |-> FALSE, file_path |-> "", total_files |-> 0,
     raised |-> FALSE, emitted |-> FALSE]

\* AudioAnalysisWorker.__init__(file_path, file_index, total_files); the
\* file_index is the second component of the task.  raised records that
\* analyze_audio raised in this worker's run(), emitted that its run() has
\* passed a signals.result.emit (line 46 or line 58).
NewWorker(path, total) ==
    [pc |-> "queued", is_cancelled |-> FALSE, file_path |-> path, total_files |-> total,
     raised |-> FALSE, emitted |-> FALSE]

InList(t, list) == \E k \in 1..Len(list) : list[k] = t

\* The worker objects left once the list aw is self.active_workers: one
\* that the pool has dropped (run() returned, or removed from the queue)
\* and the list does not hold is freed.
Referenced(ws, q, aw) ==
    [t \in Tasks |->
        IF \/ ws[t].pc \in InProgressPcs
           \/ InList(t, q)
           \/ InList(t, aw)
        THEN ws[t]
        ELSE NoWorker]

\* QThreadPool.activeThreadCount(), for a worker table ws
ActiveThreadCount(ws) == Cardinality({t \in Tasks : ws[t].pc \in InProgressPcs})

InProgress == {t \in Tasks : workers[t].pc \in InProgressPcs}

\* The workers the pool starts from its queue q: the first ones, while fewer
\* than maxCount threads are active.
NumToStart(ws, q, maxCount) ==
    LET free == maxCount - ActiveThreadCount(ws)
    IN  IF free <= 0 THEN 0 ELSE IF free >= Len(q) THEN Len(q) ELSE free

PoolWorkers(ws, q, maxCount) ==
    LET n == NumToStart(ws, q, maxCount)
    IN  [t \in Tasks |->
            IF \E k \in 1..n : q[k] = t
            THEN [ws[t] EXCEPT !.pc = "entry"]
            ELSE ws[t]]

PoolQueue(ws, q, maxCount) ==
    SubSeq(q, NumToStart(ws, q, maxCount) + 1, Len(q))

\* '-', the value of 'channels', 'sample_rate' and 'duration' in an error
\* result (lines 53-55).
Placeholder == "-"

\* analyze_audio: the result dict of a file that decodes (lines 104-112).
\* b and i stand for 'filename' and 'filepath'; "Classified" stands for the
\* label the classification gives, "channels", "kHz" and "seconds" for the
\* values read from the file.
AnalyzeAudio(t) ==
    [b |-> t[1], i |-> t[2], audio_type |-> "Classified", channels |-> "channels",
     sample_rate |-> "kHz", duration |-> "seconds", error |-> NoError]

\* An error result that leaves 'error' empty.
ErrorResultNoMessage(t) ==
    [b |-> t[1], i |-> t[2], audio_type |-> AnalysisErrorMarker,
     channels |-> Placeholder, sample_rate |-> Placeholder, duration |-> Placeholder,
     error |-> NoError]

\* error_result of run() (lines 49-57); 'error' is str(e), which
\* analyze_audio prefixes with a fixed text (line 114).
ErrorResult(t) ==
    [b |-> t[1], i |-> t[2], audio_type |-> AnalysisErrorMarker,
     channels |-> Placeholder, sample_rate |-> Placeholder, duration |-> Placeholder,
     error |-> "analysis failed: message"]

\* signals.result.emit(result): the queued call of handle_result
ResultEvent(r) == [kind |-> "result", result |-> r]

\* signals.progress.emit(file_index + 1, total_files): the queued call of
\* update_progress
ProgressEvent(t) ==
    [kind |-> "progress", completed_files |-> t[2] + 1,
     total_files |-> workers[t].total_files]

\* run() returns: the pool thread takes the next queued runnable, unless
\* too many threads are active.
Return(t) ==
    LET ws == [workers EXCEPT ![t].pc = "done"]
        q == PoolQueue(ws, poolQueue, maxThreadCount)
    IN  /\ workers' = Referenced(PoolWorkers(ws, poolQueue, maxThreadCount), q,
                                 active_workers)
        /\ poolQueue' = q

\* A run() that starts the decode without looking at the flag.
RunEntryNoCheck(t) ==
    /\ workers[t].pc = "entry"
    /\ workers' = [workers EXCEPT ![t].pc = "decode"]
    /\ UNCHANGED <<poolQueue, events>>

\* run(), lines 41-42: the entry check
RunEntry(t) ==
    /\ workers[t].pc = "entry"
    /\ IF workers[t].is_cancelled
       THEN Return(t)
       ELSE /\ workers' = [workers EXCEPT ![t].pc = "decode"]
            /\ UNCHANGED poolQueue
    /\ UNCHANGED events

\* run(), lines 45-47: analyze_audio returns and the result is emitted
\* (decodes), or it raises
RunDecode(t, decodes) ==
    /\ workers[t].pc = "decode"
    /\ IF decodes
       THEN /\ events' = Append(events, ResultEvent(AnalyzeAudio(t)))
            /\ workers' = [workers EXCEPT ![t].pc = "progress", ![t].emitted = TRUE]
       ELSE /\ workers' = [workers EXCEPT ![t].pc = "except", ![t].raised = TRUE]
            /\ UNCHANGED events
    /\ UNCHANGED poolQueue

\* run(), lines 48-58: the exception handler
RunExcept(t) ==
    /\ workers[t].pc = "except"
    /\ IF ~workers[t].is_cancelled
       THEN /\ events' = Append(events, ResultEvent(ErrorResult(t)))
            /\ workers' = [workers EXCEPT ![t].pc = "progress", ![t].emitted = TRUE]
       ELSE /\ UNCHANGED events
            /\ workers' = [workers EXCEPT ![t].pc = "progress"]
    /\ UNCHANGED poolQueue

\* A run() that emits its progress without looking at the flag.
RunProgressAlways(t) ==
    /\ workers[t].pc = "progress"
    /\ events' = Append(events, ProgressEvent(t))
    /\ Return(t)

\* run(), lines 61-62: the progress emit, and the return
RunProgress(t) ==
    /\ workers[t].pc = "progress"
    /\ IF ~workers[t].is_cancelled
       THEN events' = Append(events, ProgressEvent(t))
       ELSE UNCHANGED events
    /\ Return(t)

\* One step of a pool thread
Worker(t) ==
    /\ \/ RunEntry(t)
       \/ \E decodes \in BOOLEAN : RunDecode(t, decodes)
       \/ RunExcept(t)
       \/ RunProgress(t)
    /\ last_op' = "other"
    /\ UNCHANGED <<gui, maxThreadCount, dialog, batch, state, probe>>

----------------------------------------------------------------------------
\* GUI thread

\* A submission that tests only for an empty list.
RejectedOnlyWhenEmpty(file_paths) == file_paths = <<>>

\* analyze_audio_files, lines 344-348: the two early returns
Rejected(file_paths) == file_paths = <<>> \/ is_analyzing

\* A submission that starts the workers of a new batch and forgets to
\* reset the collector's count.
AnalyzeAudioFilesKeepsCount(file_paths) ==
    IF Rejected(file_paths)
    THEN UNCHANGED <<gui, poolQueue, workers, batch, state>>
    ELSE LET b == batch + 1
             n == Len(file_paths)
             new == [k \in 1..n |-> <<b, k - 1>>]
             created == [t \in Tasks |->
                            IF t[1] = b /\ t[2] < n
                            THEN NewWorker(file_paths[t[2] + 1], n)
                            ELSE workers[t]]
             q == poolQueue \o new
             started == PoolWorkers(created, q, maxThreadCount)
             queued == PoolQueue(created, q, maxThreadCount)
         IN  /\ is_analyzing' = TRUE
             /\ results' = <<>>
             /\ total_tasks' = n
             /\ current_progress' = 0
             /\ spinbox_enabled' = FALSE
             /\ active_workers' = new
             /\ workers' = Referenced(started, queued, new)
             /\ poolQueue' = queued
             /\ batch' = b
             /\ state' = "Running"
             /\ UNCHANGED completed_tasks

\* A start of a batch that leaves the thread spinbox enabled.
AnalyzeAudioFilesSpinboxOn(file_paths) ==
    IF Rejected(file_paths)
    THEN UNCHANGED <<gui, poolQueue, workers, batch, state>>
    ELSE LET b == batch + 1
             n == Len(file_paths)
             new == [k \in 1..n |-> <<b, k - 1>>]
             created == [t \in Tasks |->
                            IF t[1] = b /\ t[2] < n
                            THEN NewWorker(file_paths[t[2] + 1], n)
                            ELSE workers[t]]
             q == poolQueue \o new
             started == PoolWorkers(created, q, maxThreadCount)
             queued == PoolQueue(created, q, maxThreadCount)
         IN  /\ is_analyzing' = TRUE
             /\ results' = <<>>
             /\ completed_tasks' = 0
             /\ total_tasks' = n
             /\ current_progress' = 0
             /\ UNCHANGED spinbox_enabled
             /\ active_workers' = new
             /\ workers' = Referenced(started, queued, new)
             /\ poolQueue' = queued
             /\ batch' = b
             /\ state' = "Running"

\* analyze_audio_files(file_paths)
AnalyzeAudioFiles(file_paths) ==
    IF Rejected(file_paths)
    THEN UNCHANGED <<gui, poolQueue, workers, batch, state>>
    ELSE LET b == batch + 1
             n == Len(file_paths)
             new == [k \in 1..n |-> <<b, k - 1>>]
             created == [t \in Tasks |->
                            IF t[1] = b /\ t[2] < n
                            THEN NewWorker(file_paths[t[2] + 1], n)
                            ELSE workers[t]]
             q == poolQueue \o new
             started == PoolWorkers(created, q, maxThreadCount)
             queued == PoolQueue(created, q, maxThreadCount)
         IN  /\ is_analyzing' = TRUE
             /\ results' = <<>>
             /\ completed_tasks' = 0
             /\ total_tasks' = n
             /\ current_progress' = 0
             /\ spinbox_enabled' = FALSE
             /\ active_workers' = new
             /\ workers' = Referenced(started, queued, new)
             /\ poolQueue' = queued
             /\ batch' = b
             /\ state' = "Running"

\* submit_batch: select_files, select_folder and dropEvent all end in
\* analyze_audio_files; none is reachable while the modal box is open.
SubmitBatch(file_paths) ==
    /\ ~dialog
    /\ is_analyzing \/ batch < MaxBatches
    /\ AnalyzeAudioFiles(file_paths)
    /\ last_op' = "submit_batch"
    /\ UNCHANGED <<maxThreadCount, events, dialog, probe>>

\* stop_analysis, lines 303-312: the guard, and the confirmation box opens
StopRequest ==
    /\ ~dialog
    /\ is_analyzing
    /\ dialog' = TRUE
    /\ last_op' = "other"
    /\ UNCHANGED <<gui, maxThreadCount, poolQueue, workers, events, batch, state,
                   probe>>

\* stop_analysis, lines 314-331: the workers are cancelled, the list and
\* the pool's queue are emptied, the controls are enabled again
StopTeardown ==
    /\ LET cancelled == [t \in Tasks |->
                            IF InList(t, active_workers)
                            THEN [workers[t] EXCEPT !.is_cancelled = TRUE]
                            ELSE workers[t]]
       IN  workers' = Referenced(cancelled, <<>>, <<>>)
    /\ active_workers' = <<>>
    /\ poolQueue' = <<>>
    /\ is_analyzing' = FALSE
    /\ spinbox_enabled' = TRUE
    /\ state' = "Cancelled"

\* A stop that throws the collected results away.
StopDiscardsResults ==
    /\ StopTeardown
    /\ results' = <<>>
    /\ completed_tasks' = 0
    /\ UNCHANGED <<total_tasks, current_progress>>

\* stop_analysis, lines 314-340: the reply is Yes
StopConfirmed ==
    /\ StopTeardown
    /\ UNCHANGED <<results, completed_tasks, total_tasks, current_progress>>

\* cancel_batch: the user answers the confirmation box
StopReply(yes) ==
    /\ dialog
    /\ dialog' = FALSE
    /\ IF yes
       THEN StopConfirmed /\ last_op' = "cancel_batch"
       ELSE /\ last_op' = "other"
            /\ UNCHANGED <<gui, poolQueue, workers, state>>
    /\ UNCHANGED <<maxThreadCount, events, batch, probe>>

\* update_thread_count(value): the spinbox's valueChanged
UpdateThreadCount(value) ==
    /\ ~dialog
    /\ spinbox_enabled
    /\ value # maxThreadCount
    /\ maxThreadCount' = value
    /\ workers' = PoolWorkers(workers, poolQueue, value)
    /\ poolQueue' = PoolQueue(workers, poolQueue, value)
    /\ last_op' = "other"
    /\ UNCHANGED <<gui, events, dialog, batch, state, probe>>

\* analysis_finished
AnalysisFinished ==
    /\ is_analyzing' = FALSE
    /\ spinbox_enabled' = TRUE
    /\ state' = "Finished"

\* A collector that appends without counting.
HandleResultNoCount(result) ==
    /\ results' = Append(results, result)
    /\ UNCHANGED <<completed_tasks, total_tasks, active_workers, current_progress,
                   is_analyzing, spinbox_enabled, state>>

\* A collector that finishes the batch only once the count has passed the
\* total.
HandleResultLateFinish(result) ==
    /\ results' = Append(results, result)
    /\ completed_tasks' = completed_tasks + 1
    /\ IF completed_tasks' > total_tasks /\ is_analyzing
       THEN AnalysisFinished
       ELSE UNCHANGED <<is_analyzing, spinbox_enabled, state>>
    /\ UNCHANGED <<total_tasks, active_workers, current_progress>>

\* handle_result(result)
HandleResult(result) ==
    /\ results' = Append(results, result)
    /\ completed_tasks' = completed_tasks + 1
    /\ IF completed_tasks' >= total_tasks /\ is_analyzing
       THEN AnalysisFinished
       ELSE UNCHANGED <<is_analyzing, spinbox_enabled, state>>
    /\ UNCHANGED <<total_tasks, active_workers, current_progress>>

\* A progress update without the ratchet.
UpdateProgressNoRatchet(completed_files, total_files_) ==
    /\ current_progress' = (completed_files * 100) \div total_files_
    /\ UNCHANGED <<results, completed_tasks, total_tasks, active_workers,
                   is_analyzing, spinbox_enabled, state>>

\* A progress update that rounds to the nearest percent.
UpdateProgressRounded(completed_files, total_files_) ==
    LET progress_percent ==
            (2 * completed_files * 100 + total_files_) \div (2 * total_files_)
    IN  /\ IF progress_percent > current_progress
           THEN current_progress' = progress_percent
           ELSE UNCHANGED current_progress
        /\ UNCHANGED <<results, completed_tasks, total_tasks, active_workers,
                       is_analyzing, spinbox_enabled, state>>

\* update_progress(completed_files, total_files)
UpdateProgress(completed_files, total_files_) ==
    LET progress_percent == (completed_files * 100) \div total_files_
    IN  /\ IF progress_percent > current_progress
           THEN current_progress' = progress_percent
           ELSE UNCHANGED current_progress
        /\ UNCHANGED <<results, completed_tasks, total_tasks, active_workers,
                       is_analyzing, spinbox_enabled, state>>

\* The GUI event loop delivers the oldest queued signal to its slot.
Deliver ==
    /\ events # <<>>
    /\ LET e == Head(events)
       IN  IF e.kind = "result"
           THEN HandleResult(e.result)
           ELSE UpdateProgress(e.completed_files, e.total_files)
    /\ events' = Tail(events)
    /\ last_op' = "other"
    /\ UNCHANGED <<maxThreadCount, poolQueue, workers, dialog, batch, probe>>

----------------------------------------------------------------------------

\* AudioAnalyzerApp.__init__
Init ==
    /\ results = <<>>
    /\ completed_tasks = 0
    /\ total_tasks = 0
    /\ active_workers = <<>>
    /\ is_analyzing = FALSE
    /\ current_progress = 0
    /\ maxThreadCount = DefaultThreads
    /\ spinbox_enabled = TRUE
    /\ poolQueue = <<>>
    /\ workers = [t \in Tasks |-> NoWorker]
    /\ events = <<>>
    /\ dialog = FALSE
    /\ batch = 0
    /\ state = "Idle"
    /\ last_op = "other"
    /\ probe = NoProbe

Next ==
    \/ \E file_paths \in PathLists : SubmitBatch(file_paths)
    \/ StopRequest
    \/ \E yes \in BOOLEAN : StopReply(yes)
    \/ \E value \in 1..CpuCount : UpdateThreadCount(value)
    \/ \E t \in Tasks : Worker(t)
    \/ Deliver

Spec == Init /\ [][Next]_vars

\* A step of the program itself: of a pool thread, or of the event loop.
Progress ==
    \/ \E t \in Tasks : Worker(t)
    \/ Deliver

\* The operating system schedules the pool threads and the GUI event loop
\* keeps running: the program does not stop while one of them has a step to
\* take.  The collaborator is free never to call again.
FairSpec == Spec /\ WF_vars(Progress)

----------------------------------------------------------------------------
\* The classification inside analyze_audio (lines 80-102), called on its own.

\* The channel counts tried, the samples per channel and the largest sample.
MaxChannels == 9
MaxSamples == 3
MaxAmplitude == 2

\* The threshold 0.98 of line 91, as ThresholdNum / ThresholdDen.
ThresholdNum == 98
ThresholdDen == 100

\* One channel's samples.  The correlation does not change when the samples
\* are shifted or scaled, so whole numbers from 0 stand for the floats of
\* librosa; sums and products of such small whole numbers are exact in
\* floating point.
SampleBuffers == [1..MaxSamples -> 0..MaxAmplitude]

\* y of librosa.load(file_path, mono=False): a one-dimensional array when
\* the decoder gives no separate channels, else an array with a row per
\* channel, of which the code reads y[0] and y[1].
Decoded ==
    {[ndim |-> 1]}
      \cup {[ndim |-> 2, left |-> l, right |-> r] : l, r \in SampleBuffers}

\* The labels of lines 83-102.
Mono == [name |-> "Mono"]
FakeStereo == [name |-> "FakeStereo"]
Stereo == [name |-> "Stereo"]
Surround51 == [name |-> "Surround51"]
Surround71 == [name |-> "Surround71"]
NChannel(channels) == [name |-> "NChannel", channels |-> channels]

RECURSIVE Sum(_, _)
\* f[1] + ... + f[n]
Sum(f, n) == IF n = 0 THEN 0 ELSE f[n] + Sum(f, n - 1)

\* n * sum(x*y) - sum(x) * sum(y): n*(n-1) times the covariance that
\* np.corrcoef computes for the two rows.
Cov(x, y) ==
    MaxSamples * Sum([k \in 1..MaxSamples |-> x[k] * y[k]], MaxSamples)
      - Sum(x, MaxSamples) * Sum(y, MaxSamples)

\* np.corrcoef(x, y)[0, 1] is Cov(x, y) / sqrt(Cov(x, x) * Cov(y, y)); it is
\* NaN, with a warning and no exception, when a variance is 0.
CorrelationIsNaN(x, y) == Cov(x, x) * Cov(y, y) = 0

\* A comparison written as "not (correlation <= 0.98)", which NaN passes.
CorrelationNotBelowThreshold(x, y) ==
    \/ CorrelationIsNaN(x, y)
    \/ /\ Cov(x, y) > 0
       /\ Cov(x, y) * Cov(x, y) * ThresholdDen * ThresholdDen
            > ThresholdNum * ThresholdNum * Cov(x, x) * Cov(y, y)

\* correlation > 0.98 (line 91): false for NaN, as every comparison with
\* NaN is.
CorrelationAboveThreshold(x, y) ==
    /\ ~CorrelationIsNaN(x, y)
    /\ Cov(x, y) > 0
    /\ Cov(x, y) * Cov(x, y) * ThresholdDen * ThresholdDen
         > ThresholdNum * ThresholdNum * Cov(x, x) * Cov(y, y)

\* A classification without the branch for 8 channels.
ClassifyNoSurround71(channels, y) ==
    IF channels = 1 THEN Mono
    ELSE IF channels = 2
         THEN IF y.ndim > 1
              THEN IF CorrelationAboveThreshold(y.left, y.right)
                   THEN FakeStereo
                   ELSE Stereo
              ELSE Mono
    ELSE IF channels = 6 THEN Surround51
    ELSE NChannel(channels)

\* audio_type of analyze_audio, from channels and y (lines 83-102)
Classify(channels, y) ==
    IF channels = 1 THEN Mono
    ELSE IF channels = 2
         THEN IF y.ndim > 1
              THEN IF CorrelationAboveThreshold(y.left, y.right)
                   THEN FakeStereo
                   ELSE Stereo
              ELSE Mono
    ELSE IF channels = 6 THEN Surround51
    ELSE IF channels = 8 THEN Surround71
    ELSE NChannel(channels)

\* One call of the classification; it reads and writes nothing of the
\* application, so one call in a behaviour shows all there is to see.
ClassifyCall(channels, y) ==
    /\ probe = NoProbe
    /\ probe' = [op |-> "classify", channels |-> channels, y |-> y,
                 label |-> Classify(channels, y)]
    /\ UNCHANGED <<gui, maxThreadCount, poolQueue, workers, events, dialog, batch,
                   state, last_op>>

ClassifierNext ==
    \E channels \in 1..MaxChannels, y \in Decoded : ClassifyCall(channels, y)

ClassifierSpec == Init /\ [][ClassifierNext]_vars

----------------------------------------------------------------------------
\* update_progress (lines 438-454), called on its own with any arguments.

\* The largest total_files reported.
MaxTotal == 6

\* One call update_progress(completed_files, total_files), remembering the
\* percentage stored before it.
Report(completed_files, total_files_) ==
    /\ UpdateProgress(completed_files, total_files_)
    /\ probe' = [op |-> "report", completed_files |-> completed_files,
                 total_files |-> total_files_, before |-> current_progress]
    /\ UNCHANGED <<maxThreadCount, poolQueue, workers, events, dialog, batch,
                   last_op>>

ProgressNext ==
    \E total_files_ \in 1..MaxTotal :
        \E completed_files \in 1..total_files_ : Report(completed_files, total_files_)

ProgressSpec == Init /\ [][ProgressNext]_vars

----------------------------------------------------------------------------
\* Properties

IsPrefix(s1, s2) == Len(s1) <= Len(s2) /\ SubSeq(s2, 1, Len(s1)) = s1

\* The results collected for task <<b, i>>
ResultsOf(b, i) == {k \in 1..Len(results) : results[k].b = b /\ results[k].i = i}

ErrorResults == {k \in 1..Len(results) : results[k].audio_type = AnalysisErrorMarker}

\* The tasks of the current batch whose decode has failed
CorruptTasks ==
    {i \in 0..(total_tasks - 1) : <<batch, i>> \in Tasks /\ workers[<<batch, i>>].raised}

\* C1: in every reachable state the length of results equals
\* completed_tasks, whatever the interleaving of submissions, cancellations,
\* worker steps and event deliveries.
C1_ResultsMatchCount == Len(results) = completed_tasks

\* Results have been collected in a second batch, after a cancellation, with
\* further events still queued.
C1_Witness ==
    /\ batch = 2
    /\ Len(results) >= 2
    /\ events # <<>>
    /\ \E k \in 1..Len(results) : results[k].b = 1

\* C2: within one batch current_progress never decreases, in whatever
\* order the workers' progress events are delivered.
C2_ProgressMonotonic ==
    [][batch' = batch => current_progress' >= current_progress]_vars

\* A progress event lower than the stored percent is about to be delivered.
C2_Witness ==
    /\ events # <<>>
    /\ Head(events).kind = "progress"
    /\ (Head(events).completed_files * 100) \div Head(events).total_files
          < current_progress

\* C3: in a batch that is not cancelled no task has two results in results,
\* and once the batch is Finished every submitted path has exactly one.
C3_OneResultPerPath ==
    /\ state \in {"Running", "Finished"} =>
           \A b \in Batches : \A i \in Indexes : Cardinality(ResultsOf(b, i)) <= 1
    /\ state = "Finished" =>
           \A i \in 0..(total_tasks - 1) : Cardinality(ResultsOf(batch, i)) = 1

\* C4: whenever a batch that was not cancelled is Finished,
\* len(results) = completed_tasks = total_tasks.
C4_FinishedCounts ==
    (state = "Finished" /\ ~is_analyzing) =>
        (Len(results) = completed_tasks /\ completed_tasks = total_tasks)

\* C5: a Running batch eventually is Finished, unless it is cancelled, and
\* the step of handle_result that brings completed_tasks to total_tasks is
\* the step that finishes it.
C5_RunningReachesFinished ==
    /\ (state = "Running") ~> (state \in {"Finished", "Cancelled"})
    /\ [][(is_analyzing /\ completed_tasks' = completed_tasks + 1
              /\ completed_tasks' >= total_tasks)
            => (~is_analyzing' /\ state' = "Finished")]_vars

\* A batch with a corrupt file has finished on its own.
C5_Witness ==
    /\ state = "Finished"
    /\ ~is_analyzing
    /\ completed_tasks = total_tasks
    /\ CorruptTasks # {}

\* C6: a Finished batch of n files of which f do not decode holds n
\* results, f of them error-marked and n - f successful.
C6_FailuresBecomeErrorResults ==
    state = "Finished" =>
        /\ Len(results) = total_tasks
        /\ Cardinality(ErrorResults) = Cardinality(CorruptTasks)
        /\ Len(results) - Cardinality(ErrorResults)
              = total_tasks - Cardinality(CorruptTasks)

\* C7: the number of tasks in progress is at most the pool's current
\* maxThreadCount in every reachable state.
C7_AtMostK == Cardinality(InProgress) <= maxThreadCount

\* C8: a submission made while is_analyzing is true changes nothing.
C8_BusySubmitChangesNothing ==
    [][(is_analyzing /\ last_op' = "submit_batch")
        => UNCHANGED <<results, completed_tasks, total_tasks, active_workers,
                       is_analyzing, current_progress, maxThreadCount,
                       spinbox_enabled, poolQueue, workers, events, batch, state>>]_vars

\* A submission has just been rejected in a batch that has results.
C8_Witness ==
    /\ last_op = "submit_batch"
    /\ is_analyzing
    /\ completed_tasks >= 1
    /\ Cardinality(InProgress) >= 1

\* C9 as stated: once the stop is confirmed, results does not change until
\* a new batch is submitted.
C9_ResultsFrozenAfterCancel ==
    [][state' = "Cancelled" => results' = results]_vars

\* C9, amended: once the stop is confirmed, and until a new batch is
\* submitted, the results collected so far stay in results, in order; a step
\* only ever appends one result to them.
C9_ResultsKeptAfterCancel ==
    [][state' = "Cancelled"
        => /\ IsPrefix(results, results')
           /\ Len(results') <= Len(results) + 1]_vars

\* The stop has just been confirmed with one result collected and a task
\* still in progress.
C9_Witness ==
    /\ last_op = "cancel_batch"
    /\ state = "Cancelled"
    /\ Len(results) = 1
    /\ InProgress # {}

\* C10: a task that is past its entry check emits one result, successful or
\* error-marked, when its decode ends, also when it has been cancelled in
\* between.
C10_InFlightTaskEmitsResult ==
    [][\A t \in Tasks :
          (workers[t].pc \in {"decode", "except"} /\ workers'[t].pc = "progress")
          => \E r \in {AnalyzeAudio(t), ErrorResult(t)} :
                events' = Append(events, ResultEvent(r))]_vars

\* C11: once the stop is confirmed no task of the batch is left in the
\* pool's queue and every task of the batch still alive carries the
\* cancellation flag; the flag is never taken back; and a task that finds
\* the flag set at its entry check returns without decoding and without
\* emitting a result or a progress event.
C11_CancelledTaskNeverStarts ==
    /\ [](state = "Cancelled" =>
            /\ poolQueue = <<>>
            /\ \A t \in Tasks :
                  (t[1] = batch /\ workers[t].pc # "none")
                  => (workers[t].is_cancelled /\ workers[t].pc \in InProgressPcs))
    /\ [][\A t \in Tasks :
            (workers[t].is_cancelled /\ workers'[t].pc # "none")
            => workers'[t].is_cancelled]_vars
    /\ [][\A t \in Tasks :
            (workers[t].is_cancelled /\ workers[t].pc = "entry"
               /\ workers'[t].pc # "entry")
            => (workers'[t].pc \in {"done", "none"} /\ events' = events)]_vars

\* The stop has just been confirmed for a batch of two: the first task had
\* entered run() and not yet made its entry check, the second was still
\* queued and is gone.
C11_Witness ==
    /\ last_op = "cancel_batch"
    /\ total_tasks = 2
    /\ workers[<<batch, 0>>].pc = "entry"
    /\ workers[<<batch, 0>>].is_cancelled
    /\ workers[<<batch, 1>>].pc = "none"

\* C12: while a task of the cancelled batch is still in progress no new
\* batch starts.
C12_NoSubmitWhileTearingDown ==
    [][(state = "Cancelled"
          /\ \E t \in Tasks : t[1] = batch /\ workers[t].pc \in InProgressPcs)
        => batch' = batch]_vars

\* C13: after a confirmed stop is_analyzing is false, and a submission made
\* then starts a fresh batch: is_analyzing true, completed_tasks 0, results
\* empty, current_progress 0, total_tasks the number of submitted paths.
C13_FreshBatchAfterCancel ==
    /\ [](state = "Cancelled" => ~is_analyzing)
    /\ [][(state = "Cancelled" /\ last_op' = "submit_batch")
          => /\ is_analyzing'
             /\ state' = "Running"
             /\ batch' = batch + 1
             /\ completed_tasks' = 0
             /\ results' = <<>>
             /\ current_progress' = 0
             /\ total_tasks' \in 1..MaxFiles
             /\ Len(active_workers') = total_tasks'
             /\ \A k \in 1..total_tasks' :
                   /\ active_workers'[k] = <<batch', k - 1>>
                   /\ workers'[active_workers'[k]].total_files = total_tasks'
                   /\ ~workers'[active_workers'[k]].is_cancelled]_vars

\* A second batch has just been submitted after a stop that left results
\* and progress behind, while a cancelled task of the first is still alive.
C13_Witness ==
    /\ last_op = "submit_batch"
    /\ batch = 2
    /\ is_analyzing
    /\ completed_tasks = 0
    /\ total_tasks = 2
    /\ \E t \in Tasks : t[1] = 1 /\ workers[t].is_cancelled

\* C14: every result in results has its error set exactly when its
\* audio_type is the analysis-error marker, and then channels, sample rate
\* and duration are placeholders; a successful result has none of them a
\* placeholder and no error.
C14_ErrorXorClassification ==
    \A k \in 1..Len(results) :
        LET r == results[k]
        IN  /\ (r.error # NoError) <=> (r.audio_type = AnalysisErrorMarker)
            /\ r.audio_type = AnalysisErrorMarker
                  => /\ r.channels = Placeholder
                     /\ r.sample_rate = Placeholder
                     /\ r.duration = Placeholder
            /\ r.audio_type # AnalysisErrorMarker
                  => /\ r.error = NoError
                     /\ r.channels # Placeholder
                     /\ r.sample_rate # Placeholder
                     /\ r.duration # Placeholder

\* results holds an error-marked result and a successful one.
C14_Witness ==
    /\ \E k \in 1..Len(results) : results[k].audio_type = AnalysisErrorMarker
    /\ \E k \in 1..Len(results) : results[k].audio_type # AnalysisErrorMarker

\* C15: for a channel count other than 2 the label is the one the reference
\* map gives for the count, whatever the decoded samples are: 1 is Mono, 6 is
\* Surround51, 8 is Surround71 and any other count c is NChannel(c).
C15_LabelFollowsChannelCount ==
    (probe.op = "classify" /\ probe.channels # 2)
    => probe.label = CASE probe.channels = 1 -> [name |-> "Mono"]
                       [] probe.channels = 6 -> [name |-> "Surround51"]
                       [] probe.channels = 8 -> [name |-> "Surround71"]
                       [] OTHER -> [name |-> "NChannel", channels |-> probe.channels]

\* A file of 8 channels, decoded with separate channels, has been classified.
C15_Witness ==
    /\ probe.op = "classify" /\ probe.channels = 8 /\ probe.y.ndim = 2
    /\ probe.label = Surround71

\* C16: for 2 channels the label is Mono when there are no per-channel
\* samples; else it is FakeStereo or Stereo, and FakeStereo exactly when
\* neither channel is constant (the correlation is defined) and the
\* correlation is above 0.98; two all-zero channels give Stereo.
C16_StereoByCorrelation ==
    (probe.op = "classify" /\ probe.channels = 2)
    => IF probe.y.ndim = 1
       THEN probe.label = Mono
       ELSE LET x == probe.y.left
                y == probe.y.right
                Varies(b) == \E j, k \in 1..MaxSamples : b[j] # b[k]
                Defined == Varies(x) /\ Varies(y)
                Above == /\ Cov(x, y) > 0
                         /\ (Cov(x, y) * Cov(x, y)) * (ThresholdDen * ThresholdDen)
                              > (ThresholdNum * ThresholdNum) * (Cov(x, x) * Cov(y, y))
            IN  /\ probe.label \in {FakeStereo, Stereo}
                /\ probe.label = FakeStereo <=> (Defined /\ Above)
                /\ (\A k \in 1..MaxSamples : x[k] = 0 /\ y[k] = 0)
                     => probe.label = Stereo

\* Two all-zero channels have been classified as Stereo.
C16_Witness ==
    /\ probe.op = "classify" /\ probe.channels = 2 /\ probe.y.ndim = 2
    /\ \A k \in 1..MaxSamples : probe.y.left[k] = 0 /\ probe.y.right[k] = 0
    /\ probe.label = Stereo

\* C17: after report(i, total) with 1 <= i <= total the stored percentage is
\* the larger of the one stored before and the whole number p with
\* p * total <= i * 100 < (p + 1) * total; it differs from the one stored
\* before only when p is strictly greater; and it lies in 0..100.
C17_PercentIsRatchetedFloor ==
    /\ current_progress \in 0..100
    /\ probe.op = "report"
         => \E p \in 0..100 :
              /\ p * probe.total_files <= probe.completed_files * 100
              /\ probe.completed_files * 100 < (p + 1) * probe.total_files
              /\ current_progress = Max(probe.before, p)
              /\ current_progress # probe.before => p > probe.before

\* report(2, 3) has raised the stored percentage from 50 to 66.
C17_Witness ==
    /\ probe.op = "report" /\ probe.completed_files = 2 /\ probe.total_files = 3
    /\ probe.before = 50 /\ current_progress = 66

\* C18: while a batch is Running the thread spinbox is disabled, and no
\* step that starts a batch, or is taken while a batch is Running, changes
\* the pool's maximum thread count.
C18_ConcurrencyFixedWhileRunning ==
    /\ [](state = "Running" => (is_analyzing /\ ~spinbox_enabled))
    /\ [][(state = "Running" \/ state' = "Running")
          => maxThreadCount' = maxThreadCount]_vars

\* A batch is Running with tasks in progress after the thread count was
\* changed from its default before the batch.
C18_Witness ==
    /\ state = "Running" /\ InProgress # {}
    /\ maxThreadCount # DefaultThreads

\* C19: results holds only results of tasks of the current batch, and the
\* delivery of a result that a task of an earlier batch emitted appends
\* nothing, counts nothing and finishes nothing.
C19_NoStaleResults ==
    /\ [](\A k \in 1..Len(results) : results[k].b = batch)
    /\ [][(/\ events # <<>>
           /\ Head(events).kind = "result"
           /\ Head(events).result.b # batch
           /\ events' = Tail(events))
          => UNCHANGED <<results, completed_tasks, state>>]_vars

\* C20: completed_tasks, and so the length of results, never exceeds
\* total_tasks.
C20_CompletedAtMostTotal ==
    completed_tasks <= total_tasks /\ Len(results) <= total_tasks

\* C21: in every state of a batch the stored percentage is at most the
\* whole percentage of the results counted so far,
\* current_progress <= floor(completed_tasks * 100 / total_tasks).
C21_ProgressNotAhead ==
    total_tasks > 0 => current_progress <= (completed_tasks * 100) \div total_tasks

\* C22: a worker is marked as having emitted its result only in a step
\* that queues the result event of its own task; every progress event
\* queued is the one of a task that stands at lines 61-62, has emitted its
\* result before and returns in the same step, so that it emits no second
\* one; and a task that leaves lines 61-62 without a result emitted, as one
\* cancelled during its run, queues nothing.
C22_ProgressOnlyAfterResult ==
    /\ [][\A t \in Tasks :
            (workers'[t].emitted /\ ~workers[t].emitted)
            => /\ Len(events') = Len(events) + 1
               /\ events'[Len(events')].kind = "result"
               /\ events'[Len(events')].result.b = t[1]
               /\ events'[Len(events')].result.i = t[2]]_vars
    /\ [][(Len(events') > Len(events) /\ events'[Len(events')].kind = "progress")
          => \E t \in Tasks :
                /\ workers[t].pc = "progress"
                /\ workers[t].emitted
                /\ workers'[t].pc \notin InProgressPcs
                /\ events' = Append(events, ProgressEvent(t))]_vars
    /\ [][\A t \in Tasks :
            (workers[t].pc = "progress" /\ workers'[t].pc # "progress"
               /\ ~workers[t].emitted)
            => events' = events]_vars

\* A task whose decode raised after the cancellation stands at lines 61-62
\* without a result emitted.
C22_Witness ==
    \E t \in Tasks :
        /\ workers[t].pc = "progress" /\ workers[t].raised
        /\ workers[t].is_cancelled /\ ~workers[t].emitted

====
